---- MODULE Spec2Model ----
(***************************************************************************)
(* A model of the Google-Drive-Sync replication executor                   *)
(* (execute_folder_copy/entry.js) and comparison helpers                   *)
(* (compare_folders/entry.js).                                             *)
(*                                                                         *)
(* The remote store is one drive holding folder and file entries; the      *)
(* source tree and the destination tree live in it.  One run of the        *)
(* action's run() is modelled step by step: every await of a RemoteStore   *)
(* call is a step whose outcome (success / backend error) is chosen        *)
(* nondeterministically, and every checkTimeout() may pass or trip.        *)
(***************************************************************************)
EXTENDS Integers, Sequences, FiniteSets, TLC

VARIABLES
    opts,        \* the action's props (this.*)
    drive,       \* remote store: [folders |-> Seq(entry), files |-> Seq(entry)]
    nextId,      \* next fresh id the backend hands out
    pc,          \* position inside run()
    stack,       \* call stack of createFolderStructureOptimized frames
    folderCache, \* Map source folder id -> destination folder id
    folders,     \* run(): const folders (result of phase 1)
    loopI,       \* run(): loop index i over folders (1-based)
    cf,          \* copyFilesOptimized locals
    tasks,       \* copyFileBatch: the copy tasks of the current batch
    lc,          \* limitConcurrency: loop index i (0-based) and collected results
    results,     \* run(): const results (the ExecutionResult accumulator)
    ret,         \* value returned by run()
    faults,      \* number of backend errors injected so far
    calls,       \* history of RemoteStore calls (issue and settle events)
    copts,       \* compare_folders: the action's props (this.*)
    remote,      \* compare_folders: the remote entries and the backend's page length
    cpc,         \* compare_folders: position inside run()
    sourceFiles, \* compare_folders run(): const sourceFiles
    destFiles,   \* compare_folders run(): const destFiles
    comparison,  \* compare_folders run(): const comparison
    syncPlan     \* compare_folders run(): const syncPlan

\* The state of the two actions
execVars == <<opts, drive, nextId, pc, stack, folderCache, folders, loopI, cf,
              tasks, lc, results, ret, faults, calls>>

cmpVars == <<copts, remote, cpc, sourceFiles, destFiles, comparison, syncPlan>>

vars == <<execVars, cmpVars>>

----------------------------------------------------------------------------
(* Bounds of the model *)

MaxFolders == 2
MaxRootFiles == 3
MaxBatch == 2
MaxConc == 2
MaxFaults == 2

(* Program constants *)

FolderPageSize == 100
ExistingNamesLimit == 10
ExistingPageSize == 100
FilePageCap == 100

(* Ids of the two roots; NoId is an absent (falsy) sourceFolderId *)
NoId == 0
SrcRoot == 1
DestRoot == 2

----------------------------------------------------------------------------
(* Generic helpers *)

Min(a, b) == IF a < b THEN a ELSE b

Range(s) == {s[i] : i \in 1..Len(s)}

\* Array.prototype.slice(from, to) with 0-based, end-exclusive indices
Slice(s, from, to) == SubSeq(s, from + 1, Min(to, Len(s)))

RECURSIVE Filter(_, _)
Filter(s, keep) ==
    IF s = <<>> THEN <<>>
    ELSE (IF Head(s).id \in keep THEN <<Head(s)>> ELSE <<>>) \o Filter(Tail(s), keep)

\* new Map(pairs): a later pair with the same key overwrites the value
MapOf(pairs) ==
    [n \in {pairs[i].name : i \in 1..Len(pairs)} |->
        pairs[CHOOSE i \in 1..Len(pairs) :
                 /\ pairs[i].name = n
                 /\ \A j \in (i + 1)..Len(pairs) : pairs[j].name # n].id]

EmptyMap == MapOf(<<>>)

MapHas(m, name) == name \in DOMAIN m

MapGet(m, name) == m[name]

----------------------------------------------------------------------------
(* RemoteStore: the queries the executor sends to listFilesInPage *)

\* q: '<parent>' in parents and mimeType = folder and trashed = false
FoldersIn(d, parent) == SelectSeq(d.folders, LAMBDA e : e.parent = parent)

\* q: '<parent>' in parents and mimeType != folder and trashed = false;
\* without a parent: every non-folder file of the drive
FilesIn(d, parent) ==
    IF parent = NoId THEN d.files
    ELSE SelectSeq(d.files, LAMBDA e : e.parent = parent)

\* q: (name = n1 or ... ) and '<parent>' in parents and trashed = false
NamedIn(d, parent, names) ==
    SelectSeq(d.folders \o d.files,
              LAMBDA e : e.parent = parent /\ e.name \in Range(names))

\* A page of a listing: at most pageSize entries, the rest behind the token
FirstPage(listing, pageSize) == SubSeq(listing, 1, Min(pageSize, Len(listing)))

RestPages(listing, pageSize) ==
    SubSeq(listing, Min(pageSize, Len(listing)) + 1, Len(listing))

----------------------------------------------------------------------------
(* The worlds a run starts in *)

NameA == <<"a">>
NameB == <<"b">>
NameX == <<"x">>
NameYT == <<"y", ".", "t">>

FolderNames == {NameA, NameB}

\* Name of the k-th file of a source folder: x, y.t, x, ...
FileNameAt(k) == IF k % 2 = 1 THEN NameX ELSE NameYT

\* Source subfolders 11, 12, ...: folder i lies under the root or an earlier
\* folder; the first one is named "a"
SourceFolderSeqs ==
    UNION {
      { [i \in 1..n |->
            [id |-> 10 + i, name |-> f[i].name,
             parent |-> IF f[i].up = 0 THEN SrcRoot ELSE 10 + f[i].up]] :
        f \in { g \in [1..n -> [up : 0..(n - 1), name : FolderNames]] :
                  /\ \A i \in 1..n : g[i].up < i
                  /\ n > 0 => g[1].name = NameA } }
      : n \in 0..MaxFolders }

\* Source files: nRoot files in the root, one file "x" in every subfolder
SourceFileSeq(srcFolders, nRoot) ==
    [k \in 1..nRoot |-> [id |-> 20 + k, name |-> FileNameAt(k), parent |-> SrcRoot]]
    \o [j \in 1..Len(srcFolders) |->
          [id |-> 30 + j, name |-> NameX, parent |-> srcFolders[j].id]]

\* A populated destination: folder "a" holding file "x", and file "x" in the root
DestFolderSeq(populated) ==
    IF populated THEN <<[id |-> 40, name |-> NameA, parent |-> DestRoot]>> ELSE <<>>

DestFileSeq(populated) ==
    IF populated
    THEN <<[id |-> 41, name |-> NameX, parent |-> DestRoot],
           [id |-> 42, name |-> NameX, parent |-> 40]>>
    ELSE <<>>

Policies == {"skip", "rename", "replace"}

\* this.*: includeSubfolders is read only by phase 1, which runs only when
\* preserveStructure and sourceFolderId are set
OptionSets ==
    { o \in [sourceFolderId : {NoId, SrcRoot},
             destinationFolderId : {DestRoot},
             includeSubfolders : BOOLEAN,
             conflictResolution : Policies,
             preserveStructure : BOOLEAN,
             batchSize : 1..MaxBatch,
             maxConcurrency : 1..MaxConc,
             sourceFileIds : {{}, {21}}] :
        /\ ~(o.preserveStructure /\ o.sourceFolderId # NoId) => o.includeSubfolders
        /\ o.sourceFolderId = NoId => o.preserveStructure
        /\ o.sourceFileIds # {} => (~o.preserveStructure /\ o.sourceFolderId # NoId) }

\* pageToken = null / nextPageToken absent
NullToken == [has |-> FALSE, rest |-> <<>>]

EmptyResults ==
    [foldersCreated |-> 0, filesCopied |-> 0, errors |-> <<>>,
     copiedFiles |-> <<>>, createdFolders |-> <<>>]

NoCf ==
    [sourceId |-> NoId, destFolderId |-> NoId, step |-> "idle",
     pageToken |-> NullToken, nextPageToken |-> NullToken, totalProcessed |-> 0,
     filesToProcess |-> <<>>, existingFileMap |-> EmptyMap, i |-> 0,
     present |-> {}]

NoLc == [i |-> 0, results |-> <<>>]

NoRet == [kind |-> "none", success |-> FALSE]

\* The comparison action is not running
NoComparison == [additions |-> <<>>, modifications |-> <<>>, deletions |-> <<>>,
                 unchanged |-> <<>>]

CompareIdle ==
    /\ copts = [sourceFolderId |-> SrcRoot, destinationFolderId |-> DestRoot,
                includeSubfolders |-> TRUE, compareContent |-> FALSE]
    /\ remote = [nodes |-> <<>>, pageLen |-> 1]
    /\ cpc = "idle"
    /\ sourceFiles = <<>>
    /\ destFiles = <<>>
    /\ comparison = NoComparison
    /\ syncPlan = <<>>

InitWith(o, srcFolders, nRoot, populated) ==
    /\ opts = o
    /\ drive = [folders |-> srcFolders \o DestFolderSeq(populated),
                files |-> SourceFileSeq(srcFolders, nRoot) \o DestFileSeq(populated)]
    /\ nextId = 50
    /\ pc = "start"
    /\ stack = <<>>
    /\ folderCache = EmptyMap
    /\ folders = <<>>
    /\ loopI = 0
    /\ cf = NoCf
    /\ tasks = <<>>
    /\ lc = NoLc
    /\ results = EmptyResults
    /\ ret = NoRet
    /\ faults = 0
    /\ calls = <<>>
    /\ CompareIdle

Init ==
    \E o \in OptionSets, srcFolders \in SourceFolderSeqs,
       nRoot \in 0..MaxRootFiles, populated \in BOOLEAN :
        InitWith(o, srcFolders, nRoot, populated)

----------------------------------------------------------------------------
(* Backend outcomes and the call history *)

\* A RemoteStore call succeeds (TRUE) or fails with a backend error (FALSE)
Outcomes == IF faults < MaxFaults THEN {TRUE, FALSE} ELSE {TRUE}

Fault(ok) == faults' = IF ok THEN faults ELSE faults + 1

Settled(ok) == IF ok THEN "ok" ELSE "err"

\* One history entry: the call op about source entry src, with the name it
\* passes, the entry's original name, the destination folder, and the id it
\* deletes or creates (0 when none); ev is "call" when the request is issued
\* and "ok" / "err" when it settles
Ev(op, ev, src, target, name, orig, parent) ==
    [op |-> op, ev |-> ev, src |-> src, target |-> target, name |-> name,
     orig |-> orig, parent |-> parent]

ListEv(ok, folderId) == Ev("list", Settled(ok), 0, 0, <<>>, <<>>, folderId)

Top == stack[Len(stack)]

SetTop(frame) == [stack EXCEPT ![Len(stack)] = frame]

----------------------------------------------------------------------------
(* run(): the catch block, lines 412-429 *)

PartialResult(r, message) ==
    [kind |-> "failure", success |-> FALSE, error |-> message,
     partialResults |-> [foldersCreated |-> r.foldersCreated,
                         filesCopied |-> r.filesCopied,
                         errorsCount |-> Len(r.errors)]]

\* run(): the return of the try block, lines 385-410
FullResult(r) ==
    [kind |-> "success", success |-> TRUE,
     statistics |-> [foldersCreated |-> r.foldersCreated,
                     filesCopied |-> r.filesCopied,
                     errorsCount |-> Len(r.errors)],
     details |-> [copiedFiles |-> Slice(r.copiedFiles, 0, 100),
                  createdFolders |-> r.createdFolders,
                  errors |-> Slice(r.errors, 0, 50)]]

\* line 335: the message of the error checkTimeout() throws
TimeoutMessage ==
    "Operation timeout - consider reducing batch size or using smaller file sets"

\* An error thrown inside the try block: control goes to the catch block
Throw(message) ==
    /\ pc' = "done"
    /\ ret' = PartialResult(results, message)
    /\ UNCHANGED <<opts, drive, nextId, stack, folderCache, folders, loopI, cf,
                   tasks, lc, results, faults, calls>>

\* createFolderStructureOptimized(sourceId, destParentId, folderPath): entry
NewFrame(sourceId, destParentId, folderPath) ==
    [sourceId |-> sourceId, destParentId |-> destParentId,
     folderPath |-> folderPath,
     step |-> IF sourceId = NoId THEN "return" ELSE "listSub",
     subfolders |-> <<>>, existingFolderMap |-> EmptyMap, idx |-> 1,
     folders |-> <<>>]

\* copyFilesOptimized(sourceId, destFolderId, results): entry
NewCf(sourceId, destFolderId) ==
    [NoCf EXCEPT !.sourceId = sourceId, !.destFolderId = destFolderId,
                 !.step = "list"]

\* run(), line 341: the two-phase branch is taken
Structured == opts.preserveStructure /\ opts.sourceFolderId # NoId

\* A run that copies the root folder's files before it builds the folders
ContinueFilesFirst(at) ==
    CASE at = "start" -> IF Structured THEN "rootFiles" ELSE "flat"
      [] at = "rootFiles" -> IF Structured THEN "folders" ELSE "finish"
      [] at = "folders" -> "chk365"
      [] at = "chk359" -> "rootFiles"
      [] at = "chk365" -> "loop"
      [] at = "subFiles" -> "loop"
      [] at = "flat" -> "finish"

\* run(), lines 341-383: where control goes next from position at
Continue(at) ==
    CASE at = "start" -> IF Structured THEN "folders" ELSE "flat"
      [] at = "folders" -> "chk359"
      [] at = "chk359" -> "rootFiles"
      [] at = "rootFiles" -> "chk365"
      [] at = "chk365" -> "loop"
      [] at = "subFiles" -> "loop"
      [] at = "flat" -> "finish"

\* Control leaves position from: the call made on arrival is set up
Goto(from) ==
    LET to == Continue(from) IN
    /\ pc' = to
    /\ stack' = IF to = "folders"
                THEN <<NewFrame(opts.sourceFolderId, opts.destinationFolderId, <<>>)>>
                ELSE <<>>
    /\ cf' = IF to \in {"rootFiles", "flat"}
             THEN NewCf(opts.sourceFolderId, opts.destinationFolderId)
             ELSE NoCf
    /\ loopI' = IF to # "loop" THEN loopI
                ELSE IF from = "subFiles" THEN loopI + 1 ELSE 1

\* run(), lines 329-343 and 379-382: the first checkTimeout and the branch
RunStart ==
    /\ pc = "start"
    /\ \E trip \in BOOLEAN :
        IF trip THEN Throw(TimeoutMessage)
        ELSE /\ Goto("start")
             /\ UNCHANGED <<opts, drive, nextId, folderCache, folders,
                            tasks, lc, results, ret, faults, calls>>
    /\ UNCHANGED cmpVars

----------------------------------------------------------------------------
(* Phase 1: createFolderStructureOptimized, lines 108-171 *)

\* A listing whose failure is not caught by the function
ListSubfoldersUnguarded ==
    /\ pc = "folders"
    /\ Top.step = "listSub"
    /\ \E ok \in Outcomes :
        IF ok
        THEN /\ calls' = Append(calls, ListEv(ok, Top.sourceId))
             /\ stack' = SetTop([Top EXCEPT
                              !.step = "listExisting",
                              !.subfolders =
                                  FirstPage(FoldersIn(drive, Top.sourceId),
                                            FolderPageSize)])
             /\ UNCHANGED <<opts, drive, nextId, pc, folderCache, folders,
                            loopI, cf, tasks, lc, results, ret, faults>>
        ELSE Throw("backend")
    /\ UNCHANGED cmpVars

\* lines 115-119: list the subfolders of sourceId (one page)
ListSubfolders ==
    /\ pc = "folders"
    /\ Top.step = "listSub"
    /\ \E ok \in Outcomes :
        /\ Fault(ok)
        /\ calls' = Append(calls, ListEv(ok, Top.sourceId))
        /\ stack' = SetTop(
              IF ok
              THEN [Top EXCEPT !.step = "listExisting",
                               !.subfolders =
                                   FirstPage(FoldersIn(drive, Top.sourceId),
                                             FolderPageSize)]
              ELSE [Top EXCEPT !.step = "return"])
    /\ UNCHANGED <<opts, drive, nextId, pc, folderCache, folders, loopI, cf,
                   tasks, lc, results, ret>>
    /\ UNCHANGED cmpVars

\* lines 122-130: list the folders already under destParentId (one page)
ListExistingFolders ==
    /\ pc = "folders"
    /\ Top.step = "listExisting"
    /\ \E ok \in Outcomes :
        /\ Fault(ok)
        /\ calls' = Append(calls, ListEv(ok, Top.destParentId))
        /\ stack' = SetTop(
              IF ok
              THEN [Top EXCEPT !.step = "loop",
                               !.existingFolderMap =
                                   MapOf(FirstPage(FoldersIn(drive, Top.destParentId),
                                                   FolderPageSize))]
              ELSE [Top EXCEPT !.step = "return"])
    /\ UNCHANGED <<opts, drive, nextId, pc, folderCache, folders, loopI, cf,
                   tasks, lc, results, ret>>
    /\ UNCHANGED cmpVars

\* line 134
JoinPath(folderPath, name) ==
    IF folderPath # <<>> THEN folderPath \o <<"/">> \o name ELSE name

\* lines 147-164: record the folder and recurse into it if enabled
Recorded(frame, folder, destFolderId) ==
    LET currentPath == JoinPath(frame.folderPath, folder.name)
        next == [frame EXCEPT
                   !.idx = frame.idx + 1,
                   !.folders = Append(frame.folders,
                                      [sourceId |-> folder.id,
                                       destId |-> destFolderId,
                                       name |-> folder.name,
                                       path |-> currentPath])]
    IN  IF opts.includeSubfolders
        THEN SetTop(next) \o <<NewFrame(folder.id, destFolderId, currentPath)>>
        ELSE SetTop(next)

CacheSet(cache, key, value) ==
    [k \in DOMAIN cache \cup {key} |-> IF k = key THEN value ELSE cache[k]]

\* lines 133-165: one iteration of the loop over subfolders.files
ProcessFolder ==
    /\ pc = "folders"
    /\ Top.step = "loop"
    /\ Top.idx <= Len(Top.subfolders)
    /\ LET folder == Top.subfolders[Top.idx] IN
        IF MapHas(Top.existingFolderMap, folder.name)
        THEN LET destFolderId == MapGet(Top.existingFolderMap, folder.name) IN
             /\ stack' = Recorded(Top, folder, destFolderId)
             /\ folderCache' = CacheSet(folderCache, folder.id, destFolderId)
             /\ UNCHANGED <<drive, nextId, faults, calls>>
        ELSE \E ok \in Outcomes :
             /\ Fault(ok)
             /\ calls' = Append(calls,
                    Ev("createFolder", Settled(ok), folder.id,
                       IF ok THEN nextId ELSE 0, folder.name, folder.name,
                       Top.destParentId))
             /\ IF ok
                THEN /\ drive' = [drive EXCEPT !.folders =
                            Append(@, [id |-> nextId, name |-> folder.name,
                                       parent |-> Top.destParentId])]
                     /\ nextId' = nextId + 1
                     /\ stack' = Recorded(Top, folder, nextId)
                     /\ folderCache' = CacheSet(folderCache, folder.id, nextId)
                ELSE /\ stack' = SetTop([Top EXCEPT !.step = "return"])
                     /\ UNCHANGED <<drive, nextId, folderCache>>
    /\ UNCHANGED <<opts, pc, folders, loopI, cf, tasks, lc, results, ret>>
    /\ UNCHANGED cmpVars

\* lines 352-357
FoldersRecorded(r, fs) ==
    [r EXCEPT !.foldersCreated = Len(fs),
              !.createdFolders =
                  [i \in 1..Len(fs) |->
                      [name |-> fs[i].name, id |-> fs[i].destId, path |-> fs[i].path]]]

\* line 170 (and 163, 345-357 in the caller): the call returns its folders
ReturnFolders ==
    /\ pc = "folders"
    /\ \/ Top.step = "return"
       \/ Top.step = "loop" /\ Top.idx > Len(Top.subfolders)
    /\ IF Len(stack) > 1
       THEN LET caller == stack[Len(stack) - 1] IN
            /\ stack' = Append(SubSeq(stack, 1, Len(stack) - 2),
                               [caller EXCEPT !.folders = @ \o Top.folders])
            /\ UNCHANGED <<pc, folders, results, loopI, cf>>
       ELSE /\ Goto("folders")
            /\ folders' = Top.folders
            /\ results' = FoldersRecorded(results, Top.folders)
    /\ UNCHANGED <<opts, drive, nextId, folderCache, tasks, lc, ret, faults,
                   calls>>
    /\ UNCHANGED cmpVars

----------------------------------------------------------------------------
(* Phase 2: copyFilesOptimized, lines 243-315 *)

\* listFilesInPage(pageToken, {q, pageSize}): the page and the next token
PageOf(token, listing, pageSize) ==
    LET all == IF token.has THEN token.rest ELSE listing
        rest == RestPages(all, pageSize)
    IN  [files |-> FirstPage(all, pageSize),
         nextPageToken |-> IF rest = <<>> THEN NullToken
                           ELSE [has |-> TRUE, rest |-> rest]]

\* line 256
FilePageSize == Min(opts.batchSize * 2, FilePageCap)

\* lines 259-264
FilesToProcess(page) ==
    IF Cardinality(opts.sourceFileIds) > 0
    THEN Filter(page, opts.sourceFileIds)
    ELSE page

\* lines 303, 312: pageToken = filesPage.nextPageToken; while (pageToken)
NextPage(c, token) ==
    [c EXCEPT !.pageToken = token,
              !.step = IF token.has THEN "list" ELSE "return",
              !.filesToProcess = <<>>, !.existingFileMap = EmptyMap, !.i = 0,
              !.present = {}]

BatchError == [file |-> <<>>, error |-> "backend", type |-> "batch_processing_error"]

InFilePhase == pc \in {"rootFiles", "subFiles", "flat"}

\* lines 248-266 and 303-312: fetch one page of the folder's files
ListFilesPage ==
    /\ InFilePhase
    /\ cf.step = "list"
    /\ \E ok \in Outcomes :
        /\ Fault(ok)
        /\ calls' = Append(calls, ListEv(ok, cf.sourceId))
        /\ IF ok
           THEN LET page == PageOf(cf.pageToken, FilesIn(drive, cf.sourceId),
                                   FilePageSize)
                    todo == FilesToProcess(page.files)
                IN  /\ cf' = IF Len(todo) > 0
                             THEN [cf EXCEPT !.filesToProcess = todo,
                                             !.nextPageToken = page.nextPageToken,
                                             !.step = "existing"]
                             ELSE NextPage(cf, page.nextPageToken)
                    /\ results' = results
           ELSE /\ results' = [results EXCEPT !.errors = Append(@, BatchError)]
                /\ cf' = [cf EXCEPT !.step = "return"]
    /\ UNCHANGED <<opts, drive, nextId, pc, stack, folderCache, folders, loopI,
                   tasks, lc, ret>>
    /\ UNCHANGED cmpVars

Names(files) == [i \in 1..Len(files) |-> files[i].name]

\* getExistingFiles, lines 173-192: the query names at most the first ten
ExistingFiles(d, destFolderId, fileNames) ==
    IF Len(fileNames) = 0 THEN EmptyMap
    ELSE MapOf(FirstPage(NamedIn(d, destFolderId,
                                 Slice(fileNames, 0, ExistingNamesLimit)),
                         ExistingPageSize))

\* History: the file names the destination folder holds when the existence
\* pre-check is made (kept in cf.present; the code does not read it)
NamesPresent(d, destFolderId) ==
    {e.name : e \in Range(FilesIn(d, destFolderId))}

\* lines 268-269: the existence pre-check; a failed query yields an empty map
GetExistingFiles ==
    /\ InFilePhase
    /\ cf.step = "existing"
    /\ \E ok \in Outcomes :
        /\ Fault(ok)
        /\ calls' = Append(calls, ListEv(ok, cf.destFolderId))
        /\ cf' = [cf EXCEPT
                    !.step = "batch", !.i = 0,
                    !.present = NamesPresent(drive, cf.destFolderId),
                    !.existingFileMap =
                        IF ok THEN ExistingFiles(drive, cf.destFolderId,
                                                 Names(cf.filesToProcess))
                        ELSE EmptyMap]
    /\ UNCHANGED <<opts, drive, nextId, pc, stack, folderCache, folders, loopI,
                   tasks, lc, results, ret>>
    /\ UNCHANGED cmpVars

----------------------------------------------------------------------------
(* copyFileBatch, lines 194-241 *)

\* Date.now() read by a rename: the digits of the timestamp
Timestamps == {<<"7">>, <<"8">>}

Includes(name, ch) == \E i \in 1..Len(name) : name[i] = ch

\* String.prototype.lastIndexOf, 1-based
LastIndexOf(name, ch) ==
    CHOOSE i \in 1..Len(name) :
        name[i] = ch /\ \A j \in (i + 1)..Len(name) : name[j] # ch

\* line 205: fileName.split(".").pop()
Extension(name) ==
    IF Includes(name, ".")
    THEN SubSeq(name, LastIndexOf(name, ".") + 1, Len(name))
    ELSE <<>>

\* line 206
BaseName(name) ==
    IF Includes(name, ".") THEN SubSeq(name, 1, LastIndexOf(name, ".") - 1)
    ELSE name

\* A rename that keeps the name
RenamedSame(name, timestamp) == name

\* line 207
Renamed(name, timestamp) ==
    IF Extension(name) # <<>>
    THEN BaseName(name) \o <<"_", "c", "o", "p", "y", "_">> \o timestamp
         \o <<".">> \o Extension(name)
    ELSE BaseName(name) \o <<"_", "c", "o", "p", "y", "_">> \o timestamp

\* The values a copy task resolves to (lines 202, 220-228, 231-236)
SkippedValue(file) ==
    [success |-> TRUE, skipped |-> TRUE, originalName |-> file.name,
     newName |-> <<>>, originalId |-> file.id, newId |-> 0,
     error |-> "", type |-> ""]

CopiedValue(file, fileName, newId) ==
    [success |-> TRUE, skipped |-> FALSE, originalName |-> file.name,
     newName |-> fileName, originalId |-> file.id, newId |-> newId,
     error |-> "", type |-> ""]

FailedValue(file) ==
    [success |-> FALSE, skipped |-> FALSE, originalName |-> file.name,
     newName |-> <<>>, originalId |-> file.id, newId |-> 0,
     error |-> "backend", type |-> "file_copy_error"]

Pending(file) == [FailedValue(file) EXCEPT !.error = "", !.type = "pending"]

\* lines 196-213: a task runs up to its first await when the batch is mapped
StartTask(file, existingFileMap, timestamp) ==
    LET fileExists == MapHas(existingFileMap, file.name)
        policy == opts.conflictResolution
    IN  IF fileExists /\ policy = "skip"
        THEN [file |-> file, st |-> "settled", fileName |-> file.name,
              target |-> MapGet(existingFileMap, file.name),
              value |-> SkippedValue(file)]
        ELSE IF fileExists /\ policy = "rename"
        THEN [file |-> file, st |-> "copy",
              fileName |-> Renamed(file.name, timestamp),
              target |-> 0, value |-> Pending(file)]
        ELSE IF fileExists /\ policy = "replace"
        THEN [file |-> file, st |-> "delete", fileName |-> file.name,
              target |-> MapGet(existingFileMap, file.name),
              value |-> Pending(file)]
        ELSE [file |-> file, st |-> "copy", fileName |-> file.name,
              target |-> 0, value |-> Pending(file)]

\* The RemoteStore call a task issues when it starts (a skipped file issues
\* none: the history notes the skip)
CallOf(task, destFolderId) ==
    IF task.st = "copy"
    THEN <<Ev("copyFile", "call", task.file.id, 0, task.fileName,
              task.file.name, destFolderId)>>
    ELSE IF task.st = "delete"
    THEN <<Ev("deleteFile", "call", task.file.id, task.target, task.file.name,
              task.file.name, destFolderId)>>
    ELSE <<Ev("skip", "ok", task.file.id, task.target, task.file.name,
              task.file.name, destFolderId)>>

RECURSIVE CallsOf(_, _)
CallsOf(ts, destFolderId) ==
    IF ts = <<>> THEN <<>>
    ELSE CallOf(Head(ts), destFolderId) \o CallsOf(Tail(ts), destFolderId)

\* line 195: files.map(async (file) => ...) starts every task of the batch
CopyTasks(files, existingFileMap, timestamp) ==
    [k \in 1..Len(files) |-> StartTask(files[k], existingFileMap, timestamp)]

\* processInBatches lines 85-87 calling copyFileBatch line 195
StartBatch ==
    /\ InFilePhase
    /\ cf.step = "batch"
    /\ cf.i < Len(cf.filesToProcess)
    /\ \E timestamp \in Timestamps :
        LET batch == Slice(cf.filesToProcess, cf.i, cf.i + opts.batchSize)
            started == CopyTasks(batch, cf.existingFileMap, timestamp)
        IN  /\ tasks' = started
            /\ calls' = calls \o CallsOf(started, cf.destFolderId)
    /\ lc' = [i |-> 0, results |-> <<>>]
    /\ cf' = [cf EXCEPT !.step = "await"]
    /\ UNCHANGED <<opts, drive, nextId, pc, stack, folderCache, folders, loopI,
                   results, ret, faults>>
    /\ UNCHANGED cmpVars

\* copyFileBatch has mapped its tasks and awaits limitConcurrency (line 240)
AwaitingBatch == InFilePhase /\ cf.step = "await"

Exists(d, id) == \E e \in Range(d.folders) \cup Range(d.files) : e.id = id

\* The backend can copy a file that exists into a folder that exists
CanCopy(d, fileId, destFolderId) ==
    /\ \E e \in Range(d.files) : e.id = fileId
    /\ destFolderId = DestRoot \/ \E e \in Range(d.folders) : e.id = destFolderId

Remove(d, id) ==
    [folders |-> SelectSeq(d.folders, LAMBDA e : e.id # id),
     files |-> SelectSeq(d.files, LAMBDA e : e.id # id)]

\* line 209 settles: on success the task goes on to copyFile (line 213),
\* on failure to its catch (lines 230-236)
DeleteSettle(k) ==
    /\ AwaitingBatch
    /\ k \in 1..Len(tasks)
    /\ tasks[k].st = "delete"
    /\ \E ok \in IF Exists(drive, tasks[k].target) THEN Outcomes ELSE {FALSE} :
        /\ faults' = IF ok \/ ~Exists(drive, tasks[k].target) THEN faults
                     ELSE faults + 1
        /\ IF ok
           THEN /\ drive' = Remove(drive, tasks[k].target)
                /\ tasks' = [tasks EXCEPT ![k].st = "copy"]
                /\ calls' = calls
                      \o <<Ev("deleteFile", "ok", tasks[k].file.id,
                              tasks[k].target, tasks[k].file.name,
                              tasks[k].file.name, cf.destFolderId),
                           Ev("copyFile", "call", tasks[k].file.id, 0,
                              tasks[k].fileName, tasks[k].file.name,
                              cf.destFolderId)>>
           ELSE /\ drive' = drive
                /\ tasks' = [tasks EXCEPT ![k].st = "settled",
                                          ![k].value = FailedValue(tasks[k].file)]
                /\ calls' = Append(calls,
                      Ev("deleteFile", "err", tasks[k].file.id, tasks[k].target,
                         tasks[k].file.name, tasks[k].file.name,
                         cf.destFolderId))
    /\ UNCHANGED <<opts, nextId, pc, stack, folderCache, folders, loopI, cf, lc,
                   results, ret>>
    /\ UNCHANGED cmpVars

\* line 213 settles: the copy is created (lines 220-228) or the task catches
CopySettle(k) ==
    /\ AwaitingBatch
    /\ k \in 1..Len(tasks)
    /\ tasks[k].st = "copy"
    /\ \E ok \in IF CanCopy(drive, tasks[k].file.id, cf.destFolderId)
                 THEN Outcomes ELSE {FALSE} :
        /\ faults' = IF ok \/ ~CanCopy(drive, tasks[k].file.id, cf.destFolderId)
                     THEN faults ELSE faults + 1
        /\ calls' = Append(calls,
              Ev("copyFile", Settled(ok), tasks[k].file.id,
                 IF ok THEN nextId ELSE 0, tasks[k].fileName,
                 tasks[k].file.name, cf.destFolderId))
        /\ IF ok
           THEN /\ drive' = [drive EXCEPT !.files =
                       Append(@, [id |-> nextId, name |-> tasks[k].fileName,
                                  parent |-> cf.destFolderId])]
                /\ nextId' = nextId + 1
                /\ tasks' = [tasks EXCEPT
                       ![k].st = "settled",
                       ![k].value = CopiedValue(tasks[k].file, tasks[k].fileName,
                                                nextId)]
           ELSE /\ UNCHANGED <<drive, nextId>>
                /\ tasks' = [tasks EXCEPT ![k].st = "settled",
                                          ![k].value = FailedValue(tasks[k].file)]
    /\ UNCHANGED <<opts, pc, stack, folderCache, folders, loopI, cf, lc,
                   results, ret>>
    /\ UNCHANGED cmpVars

----------------------------------------------------------------------------
(* limitConcurrency, lines 98-106 *)

\* A wait that ends as soon as one task of the group has settled
AnySettled(ts) == ts = <<>> \/ \E k \in 1..Len(ts) : ts[k].st = "settled"

AllSettled(ts) == \A k \in 1..Len(ts) : ts[k].st = "settled"

\* Promise.allSettled of tasks that never reject: each entry is fulfilled
SettledResult(task) == [status |-> "fulfilled", defined |-> TRUE, value |-> task.value]

\* lines 100-104: one iteration, once the awaited group has settled
LimitConcurrencyStep ==
    /\ AwaitingBatch
    /\ lc.i < Len(tasks)
    /\ LET group == Slice(tasks, lc.i, lc.i + opts.maxConcurrency) IN
        /\ AllSettled(group)
        /\ lc' = [i |-> lc.i + opts.maxConcurrency,
                  results |-> lc.results
                      \o [k \in 1..Len(group) |-> SettledResult(group[k])]]
    /\ UNCHANGED <<opts, drive, nextId, pc, stack, folderCache, folders, loopI,
                   cf, tasks, results, ret, faults, calls>>
    /\ UNCHANGED cmpVars

\* lines 290-292: const error = result.reason || result.value
ErrorOf(result) ==
    [file |-> result.value.originalName, error |-> result.value.error,
     type |-> result.value.type]

\* An accumulation that counts every task that resolved to a value
AccumulateOneCountingAll(r, result) ==
    IF result.status = "fulfilled" /\ result.defined
    THEN [r EXCEPT !.filesCopied = @ + 1,
                   !.copiedFiles = IF result.value.success /\ ~result.value.skipped
                                   THEN Append(@, result.value) ELSE @]
    ELSE r

\* lines 281-293: one iteration of the loop over copyResults
AccumulateOne(r, result) ==
    IF result.status = "fulfilled" /\ result.defined
    THEN IF result.value.success /\ ~result.value.skipped
         THEN [r EXCEPT !.filesCopied = @ + 1,
                        !.copiedFiles = Append(@, result.value)]
         ELSE r
    ELSE IF result.status = "rejected" \/ (result.defined /\ ~result.value.success)
         THEN [r EXCEPT !.errors = Append(@, ErrorOf(result))]
         ELSE r

\* lines 279-294
RECURSIVE Accumulate(_, _)
Accumulate(r, copyResults) ==
    IF copyResults = <<>> THEN r
    ELSE Accumulate(AccumulateOne(r, Head(copyResults)), Tail(copyResults))

\* A processor that gives up the folder when a copy of the batch has failed
FinishBatchStopping ==
    /\ AwaitingBatch
    /\ lc.i >= Len(tasks)
    /\ results' = Accumulate(results, lc.results)
    /\ LET done == [cf EXCEPT !.totalProcessed = @ + Len(tasks),
                              !.i = @ + opts.batchSize]
       IN  cf' = IF \E k \in 1..Len(tasks) : ~tasks[k].value.success
                 THEN [done EXCEPT !.step = "return"]
                 ELSE IF done.i < Len(cf.filesToProcess)
                 THEN [done EXCEPT !.step = "batch"]
                 ELSE [NextPage(done, cf.nextPageToken) EXCEPT
                          !.nextPageToken = NullToken]
    /\ tasks' = <<>>
    /\ lc' = NoLc
    /\ UNCHANGED <<opts, drive, nextId, pc, stack, folderCache, folders, loopI,
                   ret, faults, calls>>
    /\ UNCHANGED cmpVars

\* limitConcurrency returns (line 105); the processor accumulates the results
\* (lines 276-298); processInBatches goes on to the next batch (lines 85-93)
\* or returns, and copyFilesOptimized goes on to the next page (lines 303-312)
FinishBatch ==
    /\ AwaitingBatch
    /\ lc.i >= Len(tasks)
    /\ results' = Accumulate(results, lc.results)
    /\ LET done == [cf EXCEPT !.totalProcessed = @ + Len(tasks),
                              !.i = @ + opts.batchSize]
       IN  cf' = IF done.i < Len(cf.filesToProcess)
                 THEN [done EXCEPT !.step = "batch"]
                 ELSE [NextPage(done, cf.nextPageToken) EXCEPT
                          !.nextPageToken = NullToken]
    /\ tasks' = <<>>
    /\ lc' = NoLc
    /\ UNCHANGED <<opts, drive, nextId, pc, stack, folderCache, folders, loopI,
                   ret, faults, calls>>
    /\ UNCHANGED cmpVars

----------------------------------------------------------------------------
(* run(), lines 359-410 *)

\* line 314 and the await in run() (lines 363, 374-377, 382)
CopyFilesReturn ==
    /\ InFilePhase
    /\ cf.step = "return"
    /\ Goto(pc)
    /\ UNCHANGED <<opts, drive, nextId, folderCache, folders, tasks, lc,
                   results, ret, faults, calls>>
    /\ UNCHANGED cmpVars

\* lines 359-363: checkTimeout, then copy the files of the root folder
AfterFolders ==
    /\ pc = "chk359"
    /\ \E trip \in BOOLEAN :
        IF trip THEN Throw(TimeoutMessage)
        ELSE /\ Goto("chk359")
             /\ UNCHANGED <<opts, drive, nextId, folderCache, folders,
                            tasks, lc, results, ret, faults, calls>>
    /\ UNCHANGED cmpVars

\* lines 365-368: checkTimeout, then enter the loop over folders
AfterRootFiles ==
    /\ pc = "chk365"
    /\ \E trip \in BOOLEAN :
        IF trip THEN Throw(TimeoutMessage)
        ELSE /\ Goto("chk365")
             /\ UNCHANGED <<opts, drive, nextId, folderCache, folders,
                            tasks, lc, results, ret, faults, calls>>
    /\ UNCHANGED cmpVars

\* lines 368-374: one iteration: checkTimeout, then copy the folder's files
LoopEnter ==
    /\ pc = "loop"
    /\ loopI <= Len(folders)
    /\ \E trip \in BOOLEAN :
        IF trip THEN Throw(TimeoutMessage)
        ELSE /\ pc' = "subFiles"
             /\ cf' = NewCf(folders[loopI].sourceId, folders[loopI].destId)
             /\ UNCHANGED <<opts, drive, nextId, stack, folderCache, folders,
                            loopI, tasks, lc, results, ret, faults, calls>>
    /\ UNCHANGED cmpVars

\* lines 385-410: the run returns its result
RunReturn ==
    /\ \/ pc = "loop" /\ loopI > Len(folders)
       \/ pc = "finish"
    /\ pc' = "done"
    /\ ret' = FullResult(results)
    /\ UNCHANGED <<opts, drive, nextId, stack, folderCache, folders, loopI, cf,
                   tasks, lc, results, faults, calls>>
    /\ UNCHANGED cmpVars

Next ==
    \/ RunStart
    \/ ListSubfolders
    \/ ListExistingFolders
    \/ ProcessFolder
    \/ ReturnFolders
    \/ AfterFolders
    \/ ListFilesPage
    \/ GetExistingFiles
    \/ StartBatch
    \/ \E k \in 1..Len(tasks) : DeleteSettle(k)
    \/ \E k \in 1..Len(tasks) : CopySettle(k)
    \/ LimitConcurrencyStep
    \/ FinishBatch
    \/ CopyFilesReturn
    \/ AfterRootFiles
    \/ LoopEnter
    \/ RunReturn

Spec == Init /\ [][Next]_vars

----------------------------------------------------------------------------
(* A flat copy under policy skip of a folder with more files than the        *)
(* existence pre-check names, into a destination that holds every name;      *)
(* no backend error is injected                                              *)

NameZ == <<"z">>

DefaultBatchSize == 20
DefaultMaxConcurrency == 5

\* The smallest batch size whose page holds more names than the pre-check asks for
WideBatchSizes == {(ExistingNamesLimit \div 2) + 1, DefaultBatchSize}

WideFileName(k) == IF k <= ExistingNamesLimit THEN FileNameAt(k) ELSE NameZ

InitWide ==
    \E n \in 0..(ExistingNamesLimit + 1), b \in WideBatchSizes :
        /\ opts = [sourceFolderId |-> SrcRoot, destinationFolderId |-> DestRoot,
                   includeSubfolders |-> TRUE, conflictResolution |-> "skip",
                   preserveStructure |-> FALSE, batchSize |-> b,
                   maxConcurrency |-> DefaultMaxConcurrency,
                   sourceFileIds |-> {}]
        /\ drive = [folders |-> <<>>,
                    files |-> [k \in 1..n |->
                                  [id |-> 20 + k, name |-> WideFileName(k),
                                   parent |-> SrcRoot]]
                        \o <<[id |-> 41, name |-> NameX, parent |-> DestRoot],
                             [id |-> 42, name |-> NameYT, parent |-> DestRoot],
                             [id |-> 43, name |-> NameZ, parent |-> DestRoot]>>]
        /\ nextId = 50
        /\ pc = "start"
        /\ stack = <<>>
        /\ folderCache = EmptyMap
        /\ folders = <<>>
        /\ loopI = 0
        /\ cf = NoCf
        /\ tasks = <<>>
        /\ lc = NoLc
        /\ results = EmptyResults
        /\ ret = NoRet
        /\ faults = MaxFaults
        /\ calls = <<>>
        /\ CompareIdle

NextWide ==
    \/ RunStart
    \/ ListFilesPage
    \/ GetExistingFiles
    \/ StartBatch
    \/ \E k \in 1..Len(tasks) : CopySettle(k)
    \/ LimitConcurrencyStep
    \/ FinishBatch
    \/ CopyFilesReturn
    \/ RunReturn

SpecWide == InitWide /\ [][NextWide]_vars

----------------------------------------------------------------------------
(* A two-phase run over a source root with more subfolders than one listing  *)
(* page returns; the folders hold no files and no backend error is injected  *)

DigitChars == <<"0", "1", "2", "3", "4", "5", "6", "7", "8", "9">>

Numeral(k) ==
    <<DigitChars[((k \div 100) % 10) + 1], DigitChars[((k \div 10) % 10) + 1],
      DigitChars[(k % 10) + 1]>>

ManyFolderName(k) == <<"f">> \o Numeral(k)

InitManyFolders ==
    \E n \in {1, FolderPageSize, FolderPageSize + 1} :
        /\ opts = [sourceFolderId |-> SrcRoot, destinationFolderId |-> DestRoot,
                   includeSubfolders |-> TRUE, conflictResolution |-> "rename",
                   preserveStructure |-> TRUE, batchSize |-> DefaultBatchSize,
                   maxConcurrency |-> DefaultMaxConcurrency,
                   sourceFileIds |-> {}]
        /\ drive = [folders |-> [k \in 1..n |->
                                    [id |-> 200 + k, name |-> ManyFolderName(k),
                                     parent |-> SrcRoot]],
                    files |-> <<>>]
        /\ nextId = 50
        /\ pc = "start"
        /\ stack = <<>>
        /\ folderCache = EmptyMap
        /\ folders = <<>>
        /\ loopI = 0
        /\ cf = NoCf
        /\ tasks = <<>>
        /\ lc = NoLc
        /\ results = EmptyResults
        /\ ret = NoRet
        /\ faults = MaxFaults
        /\ calls = <<>>
        /\ CompareIdle

NextManyFolders ==
    \/ RunStart
    \/ ListSubfolders
    \/ ListExistingFolders
    \/ ProcessFolder
    \/ ReturnFolders
    \/ AfterFolders
    \/ ListFilesPage
    \/ CopyFilesReturn
    \/ AfterRootFiles
    \/ LoopEnter
    \/ RunReturn

SpecManyFolders == InitManyFolders /\ [][NextManyFolders]_vars

----------------------------------------------------------------------------
(* A flat copy under policy rename into a destination that holds every       *)
(* source name, among them the copies an earlier run made when the clock     *)
(* read EarlierTimestamp                                                     *)

EarlierTimestamp == <<"6">>

RenameNames ==
    <<NameX, NameYT,
      <<"x", "_", "c", "o", "p", "y", "_">> \o EarlierTimestamp,
      <<"y", "_", "c", "o", "p", "y", "_">> \o EarlierTimestamp \o <<".", "t">>>>

InitRename ==
    \E n \in 0..Len(RenameNames), b \in 1..MaxBatch, mc \in 1..MaxConc,
       first \in 1..Len(RenameNames) :
        /\ opts = [sourceFolderId |-> SrcRoot, destinationFolderId |-> DestRoot,
                   includeSubfolders |-> TRUE, conflictResolution |-> "rename",
                   preserveStructure |-> FALSE, batchSize |-> b,
                   maxConcurrency |-> mc, sourceFileIds |-> {}]
        /\ drive = [folders |-> <<>>,
                    files |-> [k \in 1..n |->
                                  [id |-> 20 + k,
                                   name |-> RenameNames[((first + k - 2)
                                                % Len(RenameNames)) + 1],
                                   parent |-> SrcRoot]]
                        \o [k \in 1..Len(RenameNames) |->
                               [id |-> 40 + k, name |-> RenameNames[k],
                                parent |-> DestRoot]]]
        /\ nextId = 50
        /\ pc = "start"
        /\ stack = <<>>
        /\ folderCache = EmptyMap
        /\ folders = <<>>
        /\ loopI = 0
        /\ cf = NoCf
        /\ tasks = <<>>
        /\ lc = NoLc
        /\ results = EmptyResults
        /\ ret = NoRet
        /\ faults = 0
        /\ calls = <<>>
        /\ CompareIdle

SpecRename == InitRename /\ [][NextWide]_vars

----------------------------------------------------------------------------
(* generateSyncPlan, compare_folders/entry.js lines 155-189: priorities *)

\* A priority that does not look at the kind of the entry
PlanPriorityIgnoringKind(action, isFolder) == IF action = "delete" THEN 3 ELSE 1

PlanPriority(action, isFolder) ==
    IF action = "delete"
    THEN (IF isFolder THEN 3 ELSE 2)
    ELSE (IF isFolder THEN 1 ELSE 2)

\* line 156-185: the actions in the order they are pushed; one record shape
\* for the three kinds (file is the source entry of an update)
NoEntry == [id |-> NoId, name |-> <<>>, path |-> <<>>, isFolder |-> FALSE,
            size |-> 0, modifiedTime |-> 0, md5Checksum |-> ""]

CreateAction(file) ==
    [action |-> "create", file |-> file, destinationFile |-> NoEntry,
     reason |-> <<>>, priority |-> PlanPriority("create", file.isFolder)]

UpdateAction(m) ==
    [action |-> "update", file |-> m.source, destinationFile |-> m.destination,
     reason |-> m.reason, priority |-> PlanPriority("update", m.source.isFolder)]

DeleteAction(file) ==
    [action |-> "delete", file |-> file, destinationFile |-> NoEntry,
     reason |-> <<>>, priority |-> PlanPriority("delete", file.isFolder)]

SyncActions(c) ==
    [i \in 1..Len(c.additions) |-> CreateAction(c.additions[i])]
    \o [i \in 1..Len(c.modifications) |-> UpdateAction(c.modifications[i])]
    \o [i \in 1..Len(c.deletions) |-> DeleteAction(c.deletions[i])]

\* An insertion that puts the action ahead of its equals
InsertBeforeEquals(sorted, a) ==
    LET before == SelectSeq(sorted, LAMBDA b : b.priority < a.priority)
        after == SelectSeq(sorted, LAMBDA b : b.priority >= a.priority)
    IN  before \o <<a>> \o after

\* line 188: Array.prototype.sort is stable: an action goes behind the
\* actions already placed whose priority is not greater
InsertByPriority(sorted, a) ==
    LET before == SelectSeq(sorted, LAMBDA b : b.priority <= a.priority)
        after == SelectSeq(sorted, LAMBDA b : b.priority > a.priority)
    IN  before \o <<a>> \o after

RECURSIVE SortByPriority(_)
SortByPriority(actions) ==
    IF actions = <<>> THEN <<>>
    ELSE InsertByPriority(SortByPriority(SubSeq(actions, 1, Len(actions) - 1)),
                          actions[Len(actions)])

GenerateSyncPlan(c) == SortByPriority(SyncActions(c))

----------------------------------------------------------------------------
(* isFileModified, compare_folders/entry.js lines 132-153 *)

\* A check that stops at the first reason it finds
IsFileModifiedFirstReason(sourceFile, destFile, compareContent) ==
    IF sourceFile.modifiedTime > destFile.modifiedTime
    THEN <<"newer_modification_time">>
    ELSE IF sourceFile.size # destFile.size
    THEN <<"different_size">>
    ELSE IF /\ compareContent
            /\ sourceFile.md5Checksum # "" /\ destFile.md5Checksum # ""
            /\ sourceFile.md5Checksum # destFile.md5Checksum
    THEN <<"different_content">>
    ELSE <<>>

\* A time check that also reports an equal modification time
IsFileModifiedNotOlder(sourceFile, destFile, compareContent) ==
    (IF sourceFile.modifiedTime >= destFile.modifiedTime
     THEN <<"newer_modification_time">> ELSE <<>>)
    \o (IF sourceFile.size # destFile.size THEN <<"different_size">> ELSE <<>>)

\* The reasons; the empty sequence stands for the value false of line 152
IsFileModified(sourceFile, destFile, compareContent) ==
    (IF sourceFile.modifiedTime > destFile.modifiedTime
     THEN <<"newer_modification_time">> ELSE <<>>)
    \o (IF sourceFile.size # destFile.size THEN <<"different_size">> ELSE <<>>)
    \o (IF /\ compareContent
           /\ sourceFile.md5Checksum # "" /\ destFile.md5Checksum # ""
           /\ sourceFile.md5Checksum # destFile.md5Checksum
        THEN <<"different_content">> ELSE <<>>)

----------------------------------------------------------------------------
(* compareFiles, compare_folders/entry.js lines 84-130 *)

\* A JS Map from path to entry, as its entries in insertion order
IndexOfPath(m, path) ==
    IF \E i \in 1..Len(m) : m[i].path = path
    THEN CHOOSE i \in 1..Len(m) : m[i].path = path
    ELSE 0

MapHasPath(m, path) == IndexOfPath(m, path) # 0

\* A map that keeps every entry set into it
PathMapKeepingAll(files) == files

\* lines 89-90: Map.prototype.set replaces the value of a key it holds, in
\* place, and appends a new key
RECURSIVE PathMap(_)
PathMap(files) ==
    IF files = <<>> THEN <<>>
    ELSE LET m == PathMap(SubSeq(files, 1, Len(files) - 1))
             file == files[Len(files)]
         IN  IF MapHasPath(m, file.path)
             THEN [m EXCEPT ![IndexOfPath(m, file.path)] = file]
             ELSE Append(m, file)

\* lines 98-115, one iteration
CompareOne(c, sourceFile, destMap, compareContent) ==
    IF ~MapHasPath(destMap, sourceFile.path)
    THEN [c EXCEPT !.additions = Append(@, sourceFile)]
    ELSE LET destFile == destMap[IndexOfPath(destMap, sourceFile.path)]
             isModified == IsFileModified(sourceFile, destFile, compareContent)
         IN  IF isModified # <<>>
             THEN [c EXCEPT !.modifications =
                      Append(@, [source |-> sourceFile, destination |-> destFile,
                                 reason |-> isModified])]
             ELSE [c EXCEPT !.unchanged = Append(@, sourceFile)]

RECURSIVE CompareAll(_, _, _, _)
CompareAll(c, sourceMap, destMap, compareContent) ==
    IF sourceMap = <<>> THEN c
    ELSE CompareAll(CompareOne(c, Head(sourceMap), destMap, compareContent),
                    Tail(sourceMap), destMap, compareContent)

CompareFiles(srcFiles, dstFiles, compareContent) ==
    LET sourceMap == PathMap(srcFiles)
        destMap == PathMap(dstFiles)
        c == CompareAll(NoComparison, sourceMap, destMap, compareContent)
    IN  [c EXCEPT !.deletions =
            SelectSeq(destMap, LAMBDA destFile : ~MapHasPath(sourceMap, destFile.path))]

----------------------------------------------------------------------------
(* getAllFilesInFolder, compare_folders/entry.js lines 37-82 *)

\* line 51
FilePath(basePath, name) ==
    IF basePath # <<>> THEN basePath \o <<"/">> \o name ELSE name

\* lines 52-61
FileData(file, basePath) ==
    [id |-> file.id, name |-> file.name, path |-> FilePath(basePath, file.name),
     isFolder |-> file.isFolder, size |-> file.size,
     modifiedTime |-> file.modifiedTime, md5Checksum |-> file.md5Checksum]

\* The backend's answer to q = "'folderId' in parents": the children in order
ChildrenOf(folderId) == SelectSeq(remote.nodes, LAMBDA e : e.parent = folderId)

RECURSIVE GetAllFilesInFolder(_, _, _)
RECURSIVE WalkFiles(_, _, _, _)
RECURSIVE WalkPages(_, _, _, _)

\* lines 50-76: the loop over the files of one response
WalkFiles(page, acc, includeSubfolders, basePath) ==
    IF page = <<>> THEN acc
    ELSE LET fileData == FileData(Head(page), basePath)
             next ==
                 IF fileData.isFolder
                 THEN [folders |-> Append(acc.folders, fileData),
                       files |-> IF includeSubfolders
                                 THEN acc.files
                                      \o GetAllFilesInFolder(fileData.id,
                                                             includeSubfolders,
                                                             fileData.path)
                                 ELSE acc.files]
                 ELSE [folders |-> acc.folders,
                       files |-> Append(acc.files, fileData)]
         IN  WalkFiles(Tail(page), next, includeSubfolders, basePath)

\* An enumeration that reads the first page only
WalkFirstPage(listing, acc, includeSubfolders, basePath) ==
    WalkFiles(FirstPage(listing, remote.pageLen), acc, includeSubfolders, basePath)

\* lines 42-79: one request per page until no nextPageToken comes back
WalkPages(listing, acc, includeSubfolders, basePath) ==
    LET next == WalkFiles(FirstPage(listing, remote.pageLen), acc,
                          includeSubfolders, basePath)
        rest == RestPages(listing, remote.pageLen)
    IN  IF rest = <<>> THEN next
        ELSE WalkPages(rest, next, includeSubfolders, basePath)

\* line 81
GetAllFilesInFolder(folderId, includeSubfolders, basePath) ==
    LET acc == WalkPages(ChildrenOf(folderId), [folders |-> <<>>, files |-> <<>>],
                         includeSubfolders, basePath)
    IN  acc.folders \o acc.files

----------------------------------------------------------------------------
(* compare_folders run(), lines 192-244 *)

\* lines 197-200
Fetch ==
    /\ cpc = "fetch"
    /\ sourceFiles' = GetAllFilesInFolder(copts.sourceFolderId,
                                          copts.includeSubfolders, <<>>)
    /\ destFiles' = GetAllFilesInFolder(copts.destinationFolderId,
                                        copts.includeSubfolders, <<>>)
    /\ cpc' = "compare"
    /\ UNCHANGED <<copts, remote, comparison, syncPlan>>
    /\ UNCHANGED execVars

\* A failed enumeration that is taken for an empty one
FetchFailsContinuing ==
    /\ cpc = "fetch"
    /\ \E side \in {"source", "destination"} :
          /\ sourceFiles' = IF side = "source" THEN <<>>
                             ELSE GetAllFilesInFolder(copts.sourceFolderId,
                                                      copts.includeSubfolders, <<>>)
          /\ destFiles' = IF side = "destination" THEN <<>>
                           ELSE GetAllFilesInFolder(copts.destinationFolderId,
                                                    copts.includeSubfolders, <<>>)
    /\ cpc' = "compare"
    /\ UNCHANGED <<copts, remote, comparison, syncPlan>>
    /\ UNCHANGED execVars

\* lines 43-48, 197-200, 241-243: a listing request of one of the two
\* enumerations rejects; getAllFilesInFolder has no catch, Promise.all rejects,
\* sourceFiles and destFiles are never bound and run throws
FetchFails ==
    /\ cpc = "fetch"
    /\ \E side \in {"source", "destination"} : cpc' = "failed"
    /\ UNCHANGED <<copts, remote, sourceFiles, destFiles, comparison, syncPlan>>
    /\ UNCHANGED execVars

\* line 203
Compare ==
    /\ cpc = "compare"
    /\ comparison' = CompareFiles(sourceFiles, destFiles, copts.compareContent)
    /\ cpc' = "plan"
    /\ UNCHANGED <<copts, remote, sourceFiles, destFiles, syncPlan>>
    /\ UNCHANGED execVars

\* line 206 and the return of lines 223-239
Plan ==
    /\ cpc = "plan"
    /\ syncPlan' = GenerateSyncPlan(comparison)
    /\ cpc' = "done"
    /\ UNCHANGED <<copts, remote, sourceFiles, destFiles, comparison>>
    /\ UNCHANGED execVars

\* The replication action is not running
ExecIdle ==
    /\ opts = [sourceFolderId |-> SrcRoot, destinationFolderId |-> DestRoot,
               includeSubfolders |-> TRUE, conflictResolution |-> "rename",
               preserveStructure |-> TRUE, batchSize |-> DefaultBatchSize,
               maxConcurrency |-> DefaultMaxConcurrency, sourceFileIds |-> {}]
    /\ drive = [folders |-> <<>>, files |-> <<>>]
    /\ nextId = 50
    /\ pc = "idle"
    /\ stack = <<>>
    /\ folderCache = EmptyMap
    /\ folders = <<>>
    /\ loopI = 0
    /\ cf = NoCf
    /\ tasks = <<>>
    /\ lc = NoLc
    /\ results = EmptyResults
    /\ ret = NoRet
    /\ faults = 0
    /\ calls = <<>>

----------------------------------------------------------------------------
(* The comparison of two remote trees *)

MaxNodes == 3
MaxPage == 2

ListingNames == <<NameA, NameB, NameX, NameYT, NameZ>>

\* Source trees of n entries: entry i lies in the root or in an earlier folder
TreeShapes(n) ==
    { t \in [1..n -> [parent : {SrcRoot} \cup {10 + j : j \in 1..n},
                      isFolder : BOOLEAN]] :
        \A i \in 1..n :
            \/ t[i].parent = SrcRoot
            \/ \E j \in 1..(i - 1) : t[i].parent = 10 + j /\ t[j].isFolder }

SourceTree(t) ==
    [i \in 1..Len(t) |->
        [id |-> 10 + i, name |-> ListingNames[i], parent |-> t[i].parent,
         isFolder |-> t[i].isFolder, size |-> IF t[i].isFolder THEN 0 ELSE 1,
         modifiedTime |-> 1, md5Checksum |-> IF t[i].isFolder THEN "" ELSE "h"]]

\* The destination tree: empty, or one folder "a" holding an older file "b"
DestTree(populated) ==
    IF populated
    THEN <<[id |-> 41, name |-> NameA, parent |-> DestRoot, isFolder |-> TRUE,
            size |-> 0, modifiedTime |-> 1, md5Checksum |-> ""],
           [id |-> 42, name |-> NameB, parent |-> 41, isFolder |-> FALSE,
            size |-> 2, modifiedTime |-> 0, md5Checksum |-> "k"]>>
    ELSE <<>>

InitListing ==
    \E n \in 0..MaxNodes :
        \E t \in TreeShapes(n), populated \in BOOLEAN, pageLen \in 1..MaxPage,
           includeSubfolders \in BOOLEAN :
            /\ copts = [sourceFolderId |-> SrcRoot, destinationFolderId |-> DestRoot,
                        includeSubfolders |-> includeSubfolders,
                        compareContent |-> FALSE]
            /\ remote = [nodes |-> SourceTree(t) \o DestTree(populated),
                         pageLen |-> pageLen]
            /\ cpc = "fetch"
            /\ sourceFiles = <<>>
            /\ destFiles = <<>>
            /\ comparison = NoComparison
            /\ syncPlan = <<>>
            /\ ExecIdle

NextListing ==
    \/ Fetch
    \/ FetchFails
    \/ Compare
    \/ Plan

SpecListing == InitListing /\ [][NextListing]_vars

\* The same trees as the destination, compared with an empty source or with
\* the folder "a" holding the file "b"
InitDeletions ==
    \E n \in 0..MaxNodes :
        \E t \in TreeShapes(n), populated \in BOOLEAN, pageLen \in 1..MaxPage,
           includeSubfolders \in BOOLEAN :
            /\ copts = [sourceFolderId |-> DestRoot, destinationFolderId |-> SrcRoot,
                        includeSubfolders |-> includeSubfolders,
                        compareContent |-> FALSE]
            /\ remote = [nodes |-> SourceTree(t) \o DestTree(populated),
                         pageLen |-> pageLen]
            /\ cpc = "fetch"
            /\ sourceFiles = <<>>
            /\ destFiles = <<>>
            /\ comparison = NoComparison
            /\ syncPlan = <<>>
            /\ ExecIdle

SpecDeletions == InitDeletions /\ [][NextListing]_vars

----------------------------------------------------------------------------
(* compareFiles and generateSyncPlan applied to two entry lists *)

MaxEntries == 2

FileSizes == {1, 2}
ModifiedTimes == {1, 2}
Checksums == {"", "h", "k"}

\* The paths of the lists: a folder, a file inside it, a file beside it
ComparePaths == <<NameA, NameA \o <<"/">> \o NameX, NameB>>

\* Entry number k of path number p; the two entries of a path differ in size,
\* modification time and checksum
CompareEntry(p, k) ==
    [id |-> (10 * p) + k,
     name |-> IF p = 2 THEN NameX ELSE ComparePaths[p],
     path |-> ComparePaths[p],
     isFolder |-> (p = 1),
     size |-> IF p = 1 THEN 0 ELSE k,
     modifiedTime |-> k,
     md5Checksum |-> IF p = 1 THEN "" ELSE IF k = 1 THEN "h" ELSE "k"]

CompareEntries == {CompareEntry(p, k) : p \in 1..Len(ComparePaths), k \in 1..2}

EntryLists == UNION {[1..n -> CompareEntries] : n \in 0..MaxEntries}

InitCompare ==
    \E A \in EntryLists, B \in EntryLists, compareContent \in BOOLEAN :
        /\ copts = [sourceFolderId |-> SrcRoot, destinationFolderId |-> DestRoot,
                    includeSubfolders |-> TRUE, compareContent |-> compareContent]
        /\ remote = [nodes |-> <<>>, pageLen |-> 1]
        /\ cpc = "compare"
        /\ sourceFiles = A
        /\ destFiles = B
        /\ comparison = NoComparison
        /\ syncPlan = <<>>
        /\ ExecIdle

NextCompare ==
    \/ Compare
    \/ Plan

SpecCompare == InitCompare /\ [][NextCompare]_vars

\* One source entry and one destination entry of the same path, of every size,
\* modification time and checksum
InitModified ==
    \E ss \in FileSizes, sm \in ModifiedTimes, sc \in Checksums,
       ds \in FileSizes, dm \in ModifiedTimes, dc \in Checksums,
       compareContent \in BOOLEAN :
        /\ copts = [sourceFolderId |-> SrcRoot, destinationFolderId |-> DestRoot,
                    includeSubfolders |-> TRUE, compareContent |-> compareContent]
        /\ remote = [nodes |-> <<>>, pageLen |-> 1]
        /\ cpc = "compare"
        /\ sourceFiles = <<[id |-> 11, name |-> NameB, path |-> NameB,
                            isFolder |-> FALSE, size |-> ss, modifiedTime |-> sm,
                            md5Checksum |-> sc]>>
        /\ destFiles = <<[id |-> 41, name |-> NameB, path |-> NameB,
                          isFolder |-> FALSE, size |-> ds, modifiedTime |-> dm,
                          md5Checksum |-> dc]>>
        /\ comparison = NoComparison
        /\ syncPlan = <<>>
        /\ ExecIdle

SpecModified == InitModified /\ [][NextCompare]_vars

----------------------------------------------------------------------------
(* Vocabulary of the properties *)

CallIdx == 1..Len(calls)

IsCopyCall(e) == e.op = "copyFile" /\ e.ev = "call"

IsCopyOrDelete(e) == e.op \in {"copyFile", "deleteFile"}

CountCalls(P(_)) == Cardinality({i \in CallIdx : P(calls[i])})

\* Copy operations (copyFile, and the delete of replace) started and not settled
InFlight == Cardinality({k \in 1..Len(tasks) : tasks[k].st \in {"delete", "copy"}})

\* The same, told from the history
Unsettled ==
    CountCalls(LAMBDA e : IsCopyOrDelete(e) /\ e.ev = "call")
    - CountCalls(LAMBDA e : IsCopyOrDelete(e) /\ e.ev # "call")

\* Only copyFile / deleteFile requests have failed so far
OnlyCopyFaults == \A i \in CallIdx : calls[i].ev = "err" => IsCopyOrDelete(calls[i])

Returned == pc = "done"

TimedOut == Returned /\ ret.kind = "failure"

\* The folder pairs phase 2 visits
Pairs ==
    {[s |-> opts.sourceFolderId, d |-> opts.destinationFolderId]}
    \cup (IF Structured
          THEN {[s |-> folders[i].sourceId, d |-> folders[i].destId] :
                    i \in 1..Len(folders)}
          ELSE {})

\* The files of source folder s the run has to handle (entries of the initial
\* drive: the backend hands out ids from 50 on)
Candidates(s) ==
    {e \in Range(FilesIn(drive, s)) :
        /\ e.id < 50
        /\ opts.sourceFileIds # {} => e.id \in opts.sourceFileIds}

\* File e was handled for destination d: a copy or the delete of replace was
\* issued, or the file was skipped
Processed(e, d) ==
    \E i \in CallIdx :
        /\ calls[i].src = e.id
        /\ calls[i].parent = d
        /\ calls[i].op \in {"copyFile", "deleteFile", "skip"}

RECURSIVE ChainExists(_, _)
ChainExists(id, depth) ==
    \/ id = opts.destinationFolderId
    \/ /\ depth > 0
       /\ \E e \in Range(drive.folders) : e.id = id /\ ChainExists(e.parent, depth - 1)

----------------------------------------------------------------------------
(* C1: once the results of a chunk have been accumulated, every copyFile     *)
(* call that failed has an entry in results.errors carrying the file's name  *)
(* and the error detail.                                                     *)
C1_FailedCopyRecorded ==
    ~AwaitingBatch =>
        \A i \in CallIdx :
            (calls[i].op = "copyFile" /\ calls[i].ev = "err") =>
                \E j \in 1..Len(results.errors) :
                    /\ results.errors[j].file = calls[i].orig
                    /\ results.errors[j].error # ""

(* C2: under policy skip, a file whose name the destination folder holds at  *)
(* the time of the existence pre-check gets no copyFile call, however many   *)
(* candidate files the page has.                                             *)
C2_SkipNeverCopies ==
    opts.conflictResolution = "skip" =>
        \A k \in 1..Len(tasks) :
            tasks[k].file.name \in cf.present =>
                /\ tasks[k].value.skipped
                /\ \A i \in CallIdx :
                      IsCopyCall(calls[i]) => calls[i].src # tasks[k].file.id

(* C3: the copy operations started and not yet settled never number more     *)
(* than maxConcurrency.                                                      *)
C3_BoundedInFlight == InFlight <= opts.maxConcurrency

(* C4: no createFolder call repeats the name and destination parent of an    *)
(* earlier createFolder call of the run, and none names a folder that        *)
(* already exists under that parent.                                         *)
C4_NoDuplicateFolder ==
    [][\A i \in (Len(calls) + 1)..Len(calls') :
          calls'[i].op = "createFolder" =>
              /\ ~\E j \in CallIdx :
                    /\ calls[j].op = "createFolder"
                    /\ calls[j].name = calls'[i].name
                    /\ calls[j].parent = calls'[i].parent
              /\ ~\E e \in Range(drive.folders) :
                    e.name = calls'[i].name /\ e.parent = calls'[i].parent]_vars

(* C5: a chunk starts its copy operations only when every operation of the   *)
(* chunks before it has settled, and a chunk's results are accumulated only  *)
(* when all of its operations have settled.                                  *)
C5_ChunksInSequence ==
    [][/\ (cf.step = "batch" /\ cf'.step = "await") => Unsettled = 0
       /\ (cf.step = "await" /\ cf'.step # "await") =>
              /\ Unsettled = 0
              /\ \A k \in 1..Len(tasks) : tasks[k].st = "settled"]_vars

C5_SecondChunkInFlight ==
    /\ AwaitingBatch
    /\ cf.i > 0
    /\ InFlight > 0
    /\ \E i \in CallIdx : calls[i].op = "copyFile" /\ calls[i].ev = "err"

(* C6: with preserveStructure and a source root, every createFolder call     *)
(* has completed before the first copyFile call is issued, every copy goes   *)
(* into a destination folder whose chain of ancestors exists, and the order  *)
(* of the creations is the order of the plan priorities (folders, then       *)
(* files).                                                                   *)
C6_FoldersBeforeFiles ==
    Structured =>
        /\ \A j \in CallIdx : \A i \in 1..(j - 1) :
              (calls[i].op = "createFolder" \/ IsCopyCall(calls[i]))
              /\ (calls[j].op = "createFolder" \/ IsCopyCall(calls[j]))
              => PlanPriority("create", calls[i].op = "createFolder")
                     <= PlanPriority("create", calls[j].op = "createFolder")
        /\ \A j \in CallIdx :
              IsCopyCall(calls[j]) =>
                  /\ ChainExists(calls[j].parent, Len(drive.folders))
                  /\ \E p \in Pairs : p.d = calls[j].parent

C6_CopiedIntoCreatedFolder ==
    /\ Structured
    /\ \E i \in CallIdx, j \in CallIdx :
          /\ calls[i].op = "createFolder" /\ calls[i].ev = "ok"
          /\ calls[j].op = "copyFile" /\ calls[j].ev = "ok"
          /\ calls[j].parent = calls[i].target

(* C7: a failed copy of one file stops nothing: when only copyFile or        *)
(* deleteFile requests failed and no deadline check tripped, the run         *)
(* returns success = true and has handled every file of every folder pair.   *)
C7_FailureDoesNotStop ==
    (Returned /\ OnlyCopyFaults) =>
        /\ ret.kind = "failure" => ret.error = TimeoutMessage
        /\ ret.kind = "success" =>
              /\ ret.success
              /\ \A p \in Pairs : \A e \in Candidates(p.s) : Processed(e, p.d)

C7_ProcessedAfterFailure ==
    /\ Returned /\ ret.kind = "success" /\ OnlyCopyFaults
    /\ \E i \in CallIdx, j \in CallIdx :
          /\ i < j
          /\ calls[i].op = "copyFile" /\ calls[i].ev = "err"
          /\ IsCopyCall(calls[j])
          /\ calls[j].parent # calls[i].parent

(* C8: when a deadline check trips, the result has success = false and its   *)
(* counts are exactly the work done before the check: folders created,       *)
(* files copied, errors met.                                                 *)
C8_TimeoutCountsExact ==
    TimedOut =>
        /\ ~ret.success
        /\ ret.partialResults.foldersCreated =
               CountCalls(LAMBDA e : e.op = "createFolder" /\ e.ev = "ok")
        /\ ret.partialResults.filesCopied =
               CountCalls(LAMBDA e : e.op = "copyFile" /\ e.ev = "ok")
        /\ ret.partialResults.errorsCount =
               CountCalls(LAMBDA e : e.ev = "err")

(* C9: when the run is aborted by the deadline, the returned result carries  *)
(* everything accumulated: the counts and the lists of copied files, of      *)
(* created folders and of errors.                                            *)
C9_TimeoutKeepsEverything ==
    TimedOut =>
        /\ ret.partialResults.foldersCreated = results.foldersCreated
        /\ ret.partialResults.filesCopied = results.filesCopied
        /\ ret.partialResults.errorsCount = Len(results.errors)
        /\ "details" \in DOMAIN ret
        /\ ret.details.copiedFiles = results.copiedFiles
        /\ ret.details.createdFolders = results.createdFolders
        /\ ret.details.errors = results.errors

(* C10: whatever RemoteStore calls fail and whichever deadline check trips,  *)
(* the run goes on until it returns a structured result, and the result has  *)
(* success = false only when a deadline check tripped.                       *)
C10_NoFaultEscapes ==
    /\ ~Returned => (ret.kind = "none" /\ ENABLED Next)
    /\ Returned => ret.kind \in {"success", "failure"}
    /\ ret.kind = "success" =>
          /\ ret.success
          /\ ret.statistics.errorsCount = Len(results.errors)
    /\ ret.kind = "failure" =>
          /\ ~ret.success
          /\ ret.error = TimeoutMessage

C10_SuccessDespiteFaults ==
    /\ Returned /\ ret.kind = "success"
    /\ \E i \in CallIdx : calls[i].op = "list" /\ calls[i].ev = "err"
    /\ \E i \in CallIdx : calls[i].op = "copyFile" /\ calls[i].ev = "err"

(* C11: a failed listing of a source folder, of its subfolders in the folder *)
(* phase or of its files in the file phase, adds an entry to the result's    *)
(* error list.                                                               *)
C11_ListFailureRecorded ==
    [][((pc = "folders" /\ Top.step = "listSub") \/ (InFilePhase /\ cf.step = "list"))
       => \A i \in (Len(calls) + 1)..Len(calls') :
              (calls'[i].op = "list" /\ calls'[i].ev = "err")
              => Len(results'.errors) = Len(results.errors) + 1]_vars

\* The folder phase of a two-phase run has returned and the run goes on
FoldersBuilt == pc \in {"chk359", "rootFiles", "chk365", "loop", "subFiles"}

(* C20: a createFolder failure for one source subfolder is handled at that   *)
(* item only: once the folder phase has returned without a failed listing,   *)
(* every subfolder of the source root whose createFolder did not fail has a  *)
(* folder record, and every failed createFolder has an entry in the error    *)
(* list.                                                                     *)
C20_CreateFailureAtItemOnly ==
    (FoldersBuilt /\ ~\E i \in CallIdx : calls[i].op = "list" /\ calls[i].ev = "err")
    => /\ \A e \in Range(FoldersIn(drive, opts.sourceFolderId)) :
             (~\E i \in CallIdx :
                  /\ calls[i].op = "createFolder"
                  /\ calls[i].ev = "err"
                  /\ calls[i].src = e.id)
             => \E k \in 1..Len(folders) : folders[k].sourceId = e.id
       /\ Len(results.errors) >=
              CountCalls(LAMBDA e : e.op = "createFolder" /\ e.ev = "err")

EndsWith(name, suffix) ==
    /\ Len(name) >= Len(suffix)
    /\ SubSeq(name, Len(name) - Len(suffix) + 1, Len(name)) = suffix

(* C17: under policy rename, the name a colliding file is copied under is    *)
(* none of the names of the pre-fetched existing-name set, and it ends with  *)
(* the extension of the original name when that name has one.                *)
C17_RenameIsFresh ==
    opts.conflictResolution = "rename" =>
        \A k \in 1..Len(tasks) :
            MapHas(cf.existingFileMap, tasks[k].file.name) =>
                \E i \in CallIdx :
                    /\ IsCopyCall(calls[i])
                    /\ calls[i].src = tasks[k].file.id
                    /\ calls[i].parent = cf.destFolderId
                    /\ ~MapHas(cf.existingFileMap, calls[i].name)
                    /\ \A j \in 1..Len(calls[i].orig) :
                          (calls[i].orig[j] = "." /\ j < Len(calls[i].orig)
                           /\ \A m \in (j + 1)..Len(calls[i].orig) :
                                 calls[i].orig[m] # ".")
                          => EndsWith(calls[i].name,
                                      SubSeq(calls[i].orig, j, Len(calls[i].orig)))

C17_RenamedEarlierCopy ==
    /\ opts.conflictResolution = "rename"
    /\ \E i \in CallIdx :
          /\ calls[i].op = "copyFile" /\ calls[i].ev = "ok"
          /\ calls[i].orig = RenameNames[4]
          /\ calls[i].name # calls[i].orig
          /\ MapHas(cf.existingFileMap, calls[i].orig)

(* C18: under policy replace, every copyFile call for a file whose name the *)
(* destination folder holds at the pre-check uses the original name and is   *)
(* issued after the delete of the pre-existing file has succeeded; after a   *)
(* failed delete no copyFile call is issued for the file.                    *)
C18_DeleteBeforeCopy ==
    opts.conflictResolution = "replace" =>
        \A k \in 1..Len(tasks) :
            tasks[k].file.name \in cf.present =>
                \A i \in CallIdx :
                    (IsCopyCall(calls[i]) /\ calls[i].src = tasks[k].file.id
                     /\ calls[i].parent = cf.destFolderId)
                    => /\ calls[i].name = tasks[k].file.name
                       /\ \E j \in 1..(i - 1) :
                             /\ calls[j].op = "deleteFile" /\ calls[j].ev = "ok"
                             /\ calls[j].src = tasks[k].file.id
                       /\ ~\E j \in 1..(i - 1) :
                             /\ calls[j].op = "deleteFile" /\ calls[j].ev = "err"
                             /\ calls[j].src = tasks[k].file.id

\* Folder entry e lies below folder root, at most depth levels further down
RECURSIVE IsUnder(_, _, _)
IsUnder(e, root, depth) ==
    \/ e.parent = root
    \/ /\ depth > 0
       /\ \E p \in Range(drive.folders) : p.id = e.parent /\ IsUnder(p, root, depth - 1)

\* The destination folder the records map source folder id to
DestOf(id) ==
    IF id = opts.sourceFolderId THEN {opts.destinationFolderId}
    ELSE {folders[k].destId : k \in {j \in 1..Len(folders) : folders[j].sourceId = id}}

(* C19: after folder replication with recursion enabled and no backend       *)
(* failure, the folder records hold exactly one record for every folder      *)
(* below the source root, and each record's destId is a folder under the     *)
(* destination folder that the record's source parent is mapped to.          *)
C19_OneRecordPerFolder ==
    (FoldersBuilt /\ opts.includeSubfolders
        /\ ~\E i \in CallIdx : calls[i].ev = "err")
    => /\ \A e \in Range(drive.folders) :
             IsUnder(e, opts.sourceFolderId, Len(drive.folders))
             => Cardinality({k \in 1..Len(folders) : folders[k].sourceId = e.id}) = 1
       /\ \A k \in 1..Len(folders) :
             \E e \in Range(drive.folders), d \in Range(drive.folders) :
                 /\ e.id = folders[k].sourceId
                 /\ d.id = folders[k].destId
                 /\ d.parent \in DestOf(e.parent)

\* The comparison action has enumerated the two trees
Fetched == cpc \in {"compare", "plan", "done"}

FoldersFirst(entries) ==
    \A i \in 1..Len(entries) : \A j \in (i + 1)..Len(entries) :
        entries[j].isFolder => entries[i].isFolder

(* C14: with recursion enabled, the sequence getAllFilesInFolder returns     *)
(* places every folder entry, at any depth, ahead of every file entry.       *)
C14_FoldersAheadOfFiles ==
    (Fetched /\ copts.includeSubfolders)
    => FoldersFirst(sourceFiles) /\ FoldersFirst(destFiles)

\* compareFiles has returned
Compared == cpc \in {"plan", "done"}

\* generateSyncPlan has returned
Planned == cpc = "done"

PathsOf(entries) == {entries[i].path : i \in 1..Len(entries)}

NoRepeat(s) == \A i \in 1..Len(s) : \A j \in (i + 1)..Len(s) : s[i] # s[j]

PathSeq(entries) == [i \in 1..Len(entries) |-> entries[i].path]

ModifiedPaths == [i \in 1..Len(comparison.modifications) |->
                     comparison.modifications[i].source.path]

\* The last entry of the list with the path
LastWithPath(entries, path) ==
    entries[CHOOSE i \in 1..Len(entries) :
                /\ entries[i].path = path
                /\ \A j \in (i + 1)..Len(entries) : entries[j].path # path]

(* C12: compareFiles puts every path of the two lists into exactly one of    *)
(* the four buckets: source-only paths into additions, destination-only      *)
(* paths into deletions, common paths into modifications or unchanged, no    *)
(* path twice, also when a list repeats a path.                              *)
C12_BucketsPartitionPaths ==
    Compared =>
        /\ Range(PathSeq(comparison.additions))
               = PathsOf(sourceFiles) \ PathsOf(destFiles)
        /\ Range(PathSeq(comparison.deletions))
               = PathsOf(destFiles) \ PathsOf(sourceFiles)
        /\ Range(ModifiedPaths) \cup Range(PathSeq(comparison.unchanged))
               = PathsOf(sourceFiles) \cap PathsOf(destFiles)
        /\ Range(ModifiedPaths) \cap Range(PathSeq(comparison.unchanged)) = {}
        /\ NoRepeat(PathSeq(comparison.additions))
        /\ NoRepeat(PathSeq(comparison.deletions))
        /\ NoRepeat(ModifiedPaths)
        /\ NoRepeat(PathSeq(comparison.unchanged))

C12_RepeatedPathCompared ==
    /\ Compared
    /\ ~NoRepeat(PathSeq(sourceFiles))
    /\ ~NoRepeat(PathSeq(destFiles))
    /\ PathsOf(sourceFiles) # PathsOf(destFiles)
    /\ comparison.additions # <<>>
    /\ comparison.deletions # <<>>

Inside(path, folderPath) ==
    /\ Len(path) > Len(folderPath) + 1
    /\ SubSeq(path, 1, Len(folderPath) + 1) = folderPath \o <<"/">>

WithPriority(actions, p) == SelectSeq(actions, LAMBDA a : a.priority = p)

(* C13: the plan is sorted non-decreasing by priority; the create action of  *)
(* an added folder comes before the create action of every added file        *)
(* inside it; every file deletion comes before every folder deletion;        *)
(* actions of equal priority keep the order in which they were pushed.       *)
C13_PlanOrder ==
    Planned =>
        /\ \A i \in 1..Len(syncPlan) : \A j \in (i + 1)..Len(syncPlan) :
              syncPlan[i].priority <= syncPlan[j].priority
        /\ \A i \in 1..Len(syncPlan) : \A j \in 1..Len(syncPlan) :
              (/\ syncPlan[i].action = "create" /\ syncPlan[i].file.isFolder
               /\ syncPlan[j].action = "create" /\ ~syncPlan[j].file.isFolder
               /\ Inside(syncPlan[j].file.path, syncPlan[i].file.path))
              => i < j
        /\ \A i \in 1..Len(syncPlan) : \A j \in 1..Len(syncPlan) :
              (/\ syncPlan[i].action = "delete" /\ ~syncPlan[i].file.isFolder
               /\ syncPlan[j].action = "delete" /\ syncPlan[j].file.isFolder)
              => i < j
        /\ Len(syncPlan) = Len(comparison.additions)
               + Len(comparison.modifications) + Len(comparison.deletions)
        /\ \A p \in {syncPlan[i].priority : i \in 1..Len(syncPlan)} :
              WithPriority(syncPlan, p) = WithPriority(SyncActions(comparison), p)

C13_FolderMovedAhead ==
    /\ Planned
    /\ Len(comparison.additions) = 2
    /\ ~comparison.additions[1].isFolder
    /\ comparison.additions[2].isFolder
    /\ Inside(comparison.additions[1].path, comparison.additions[2].path)
    /\ comparison.deletions # <<>>
    /\ syncPlan[1].file = comparison.additions[2]

\* The reason tags whose condition holds for the pair
ReasonsOf(s, d) ==
    {r \in {"newer_modification_time", "different_size", "different_content"} :
        \/ r = "newer_modification_time" /\ s.modifiedTime > d.modifiedTime
        \/ r = "different_size" /\ s.size # d.size
        \/ /\ r = "different_content"
           /\ copts.compareContent
           /\ s.md5Checksum # "" /\ d.md5Checksum # ""
           /\ s.md5Checksum # d.md5Checksum}

(* C15: for two entries of the same path, isFileModified returns exactly the *)
(* reason tags whose condition holds, each on its own; the pair is reported  *)
(* unchanged iff no condition holds; with deepCompare off different_content  *)
(* is never returned.                                                        *)
C15_ReasonsAreAdditive ==
    Compared =>
        /\ \A i \in 1..Len(comparison.modifications) :
              LET m == comparison.modifications[i] IN
              /\ Range(m.reason) = ReasonsOf(m.source, m.destination)
              /\ NoRepeat(m.reason)
              /\ m.reason # <<>>
              /\ ~copts.compareContent => "different_content" \notin Range(m.reason)
        /\ \A i \in 1..Len(comparison.unchanged) :
              ReasonsOf(comparison.unchanged[i],
                        LastWithPath(destFiles, comparison.unchanged[i].path)) = {}
        /\ Len(comparison.modifications) + Len(comparison.unchanged)
               = Cardinality(PathsOf(sourceFiles) \cap PathsOf(destFiles))

C15_AllReasonsAtOnce ==
    /\ Compared
    /\ Len(comparison.modifications) = 1
    /\ Len(comparison.modifications[1].reason) = 3
    /\ comparison.modifications[1].source.modifiedTime
           > comparison.modifications[1].destination.modifiedTime

(* C16: for every entry list A whose paths are pairwise distinct,            *)
(* compareFiles(A, A) returns empty additions, modifications and deletions   *)
(* and unchanged equal to A; when A repeats a path, unchanged holds one      *)
(* entry for each path, the last entry of A with that path.                  *)
C16_SelfCompareDistinct ==
    (Compared /\ sourceFiles = destFiles) =>
        /\ comparison.additions = <<>>
        /\ comparison.modifications = <<>>
        /\ comparison.deletions = <<>>
        /\ NoRepeat(PathSeq(sourceFiles)) => comparison.unchanged = sourceFiles
        /\ Len(comparison.unchanged) = Cardinality(PathsOf(sourceFiles))
        /\ \A i \in 1..Len(comparison.unchanged) :
              comparison.unchanged[i]
                  = LastWithPath(sourceFiles, comparison.unchanged[i].path)

C16_SelfComparedList ==
    /\ Compared
    /\ sourceFiles = destFiles
    /\ Len(sourceFiles) = MaxEntries
    /\ NoRepeat(PathSeq(sourceFiles))
    /\ comparison.unchanged = sourceFiles

(* C16 as stated: for every entry list A, compareFiles(A, A) returns empty   *)
(* additions, modifications and deletions and unchanged equal to A.          *)
C16_SelfCompareUnchanged ==
    (Compared /\ sourceFiles = destFiles) =>
        /\ comparison.additions = <<>>
        /\ comparison.modifications = <<>>
        /\ comparison.deletions = <<>>
        /\ comparison.unchanged = sourceFiles

(* C21: in the plan, the delete action of a folder comes after the delete   *)
(* action of every deleted entry whose path lies inside that folder, files   *)
(* and nested subfolders alike.                                              *)
C21_FolderDeletedAfterContents ==
    Planned =>
        \A i \in 1..Len(syncPlan) : \A j \in 1..Len(syncPlan) :
            (/\ syncPlan[j].action = "delete" /\ syncPlan[j].file.isFolder
             /\ syncPlan[i].action = "delete"
             /\ Inside(syncPlan[i].file.path, syncPlan[j].file.path))
            => i < j

\* The listing of one of the two roots, told from the remote tree
NodeIdx == 1..Len(remote.nodes)

NodeOf(id) == CHOOSE i \in NodeIdx : remote.nodes[i].id = id

RECURSIVE DescendsFrom(_, _, _)
DescendsFrom(i, rootId, depth) ==
    \/ remote.nodes[i].parent = rootId
    \/ /\ depth > 0
       /\ \E j \in NodeIdx :
             /\ remote.nodes[j].id = remote.nodes[i].parent
             /\ remote.nodes[j].isFolder
             /\ DescendsFrom(j, rootId, depth - 1)

\* The nodes an enumeration of rootId has to visit
ToVisit(rootId) ==
    {i \in NodeIdx :
        IF copts.includeSubfolders
        THEN DescendsFrom(i, rootId, Len(remote.nodes))
        ELSE remote.nodes[i].parent = rootId}

\* The names from the root down to node i, joined by slashes
RECURSIVE PathFromRoot(_, _)
PathFromRoot(i, rootId) ==
    IF remote.nodes[i].parent = rootId
    THEN remote.nodes[i].name
    ELSE PathFromRoot(NodeOf(remote.nodes[i].parent), rootId)
             \o <<"/">> \o remote.nodes[i].name

ListsExactly(entries, rootId) ==
    /\ Len(entries) = Cardinality(ToVisit(rootId))
    /\ {<<entries[k].id, entries[k].path, entries[k].isFolder>> :
            k \in 1..Len(entries)}
           = {<<remote.nodes[i].id, PathFromRoot(i, rootId), remote.nodes[i].isFolder>> :
                 i \in ToVisit(rootId)}

(* C23: for every remote tree and every page length, getAllFilesInFolder     *)
(* returns exactly one entry for every node it has to visit: the direct      *)
(* children of the root over all pages and, with recursion on, every deeper  *)
(* descendant, each with the slash-joined names from the root as its path;   *)
(* an empty folder yields no entries.                                        *)
C23_ListingIsComplete ==
    Fetched =>
        /\ ListsExactly(sourceFiles, copts.sourceFolderId)
        /\ ListsExactly(destFiles, copts.destinationFolderId)

C23_PagedNestedListing ==
    /\ Fetched
    /\ copts.includeSubfolders
    /\ remote.pageLen = 1
    /\ Len(sourceFiles) = MaxNodes
    /\ Cardinality({i \in NodeIdx : remote.nodes[i].parent = copts.sourceFolderId}) = 2
    /\ \E k \in 1..Len(sourceFiles) : Len(sourceFiles[k].path) > 2
    /\ destFiles = <<>>

(* C24: a listing request that fails during either enumeration fails the    *)
(* whole comparison: the run leaves the fetch either with both complete      *)
(* listings or as failed, and a failed run has no comparison and no plan and *)
(* stays failed.                                                             *)
C24_ListingFailureFailsRun ==
    [][/\ (cpc = "fetch" /\ cpc' # "failed") =>
              /\ cpc' = "compare"
              /\ sourceFiles' = GetAllFilesInFolder(copts.sourceFolderId,
                                                    copts.includeSubfolders, <<>>)
              /\ destFiles' = GetAllFilesInFolder(copts.destinationFolderId,
                                                  copts.includeSubfolders, <<>>)
       /\ cpc' = "failed" => (comparison' = NoComparison /\ syncPlan' = <<>>)
       /\ cpc = "failed" => cpc' = "failed"]_vars

C24_FailedComparison ==
    /\ cpc = "failed"
    /\ Len(remote.nodes) >= MaxNodes
    /\ comparison = NoComparison
    /\ syncPlan = <<>>

\* The source file of the history entry is a direct child of the source root
DirectChild(e) ==
    \E f \in Range(drive.files) : f.id = e.src /\ f.parent = opts.sourceFolderId

(* C22: when includeSubfolders is false, the run creates no destination      *)
(* folder and issues no copyFile call for a file that is not a direct child  *)
(* of the source root.                                                       *)
C22_NoRecursionNoFolders ==
    ~opts.includeSubfolders =>
        \A i \in CallIdx :
            /\ calls[i].op # "createFolder"
            /\ IsCopyCall(calls[i]) => DirectChild(calls[i])

\* The folders-created count of the returned result
ReportedFoldersCreated ==
    IF ret.kind = "success" THEN ret.statistics.foldersCreated
    ELSE ret.partialResults.foldersCreated

(* C25: the folders-created count the run reports equals the number of       *)
(* destination folders createFolder created during the run; folders that    *)
(* existed in the destination and were reused are not counted.               *)
C25_FoldersCreatedCount ==
    Returned =>
        ReportedFoldersCreated
            = CountCalls(LAMBDA e : e.op = "createFolder" /\ e.ev = "ok")

\* No chunk is being processed: every started task has been accumulated
ChunksAccumulated == tasks = <<>>

(* C26: whenever the results of the chunks started so far have been          *)
(* accumulated, filesCopied equals the length of the copied-file list and    *)
(* the number of copyFile calls that returned successfully; skipped files    *)
(* and failed copies do not count.                                           *)
C26_FilesCopiedCount ==
    ChunksAccumulated =>
        /\ results.filesCopied = Len(results.copiedFiles)
        /\ results.filesCopied
               = CountCalls(LAMBDA e : e.op = "copyFile" /\ e.ev = "ok")

C26_CountedAmongSkipsAndFailures ==
    /\ ChunksAccumulated
    /\ results.filesCopied >= 1
    /\ results.filesCopied = Len(results.copiedFiles)
    /\ \E i \in CallIdx : calls[i].op = "skip"
    /\ \E i \in CallIdx : calls[i].op = "copyFile" /\ calls[i].ev = "err"

====
